---- MODULE Spec2Model ----
(***************************************************************************)
(* Model of MistralAI.py: the MistralAIClient dataclass, its construction  *)
(* check, query validation, the two calls chat and web_search, the status  *)
(* mapping, the decoding of the streamed lines and the handlers of the     *)
(* transport exceptions.                                                   *)
(*                                                                         *)
(* A Python str is a sequence of one-character strings.  The transport     *)
(* (requests.post, Response.iter_lines), the clock (datetime.now) and the  *)
(* identifier source (uuid.uuid4) are the environment: the transport       *)
(* answers with any status and any body of the bounded sets below, or      *)
(* raises any of the requests exceptions; the clock moves along Calendar;  *)
(* the n-th invocation of uuid4 yields the n-th identifier (distinct       *)
(* invocations of uuid4 yield distinct values).                            *)
(***************************************************************************)
EXTENDS Integers, Sequences, FiniteSets, TLC

\* ------------------------------------------------------------------ bounds
MaxLines == 2
MaxCalls == 2

\* --------------------------------------------------------------- constants
MaxQueryLen == 1000

None == [none |-> TRUE]

\* ----------------------------------------------------------- str helpers
Whitespace == {" ", "\t", "\n", "\r"}

Rep(c, n) == [i \in 1..n |-> c]

RECURSIVE LStripFrom(_, _)
LStripFrom(s, i) ==
    IF i > Len(s) THEN i
    ELSE IF s[i] \in Whitespace THEN LStripFrom(s, i + 1) ELSE i

RECURSIVE RStripFrom(_, _)
RStripFrom(s, j) ==
    IF j < 1 THEN j
    ELSE IF s[j] \in Whitespace THEN RStripFrom(s, j - 1) ELSE j

\* str.strip()
Strip(s) == SubSeq(s, LStripFrom(s, 1), RStripFrom(s, Len(s)))

\* str.startswith(prefix)
StartsWith(s, prefix) ==
    /\ Len(s) >= Len(prefix)
    /\ SubSeq(s, 1, Len(prefix)) = prefix

\* s[start:stop] for start >= 0 and stop < 0
Slice(s, start, stop) ==
    LET hi == IF Len(s) + stop < 0 THEN 0 ELSE Len(s) + stop
    IN  SubSeq(s, start + 1, hi)

\* str.replace(ch, '') for a one-character ch
Replace(s, ch) == SelectSeq(s, LAMBDA c : c # ch)

Digits10 == <<"0", "1", "2", "3", "4", "5", "6", "7", "8", "9">>

Pow10(k) == IF k = 0 THEN 1 ELSE IF k = 1 THEN 10 ELSE IF k = 2 THEN 100 ELSE 1000

RECURSIVE IntStr(_)
\* str(n) for n >= 0, as an f-string prints it
IntStr(n) ==
    IF n < 10 THEN <<Digits10[n + 1]>>
    ELSE IntStr(n \div 10) \o <<Digits10[(n % 10) + 1]>>

\* zero-padded decimal of width w, as %Y, %m and %d print it
Zfill(n, w) == [i \in 1..w |-> Digits10[((n \div Pow10(w - i)) % 10) + 1]]

\* datetime.strftime('%Y-%m-%d')
Strftime(date) ==
    Zfill(date.year, 4) \o <<"-">> \o Zfill(date.month, 2) \o <<"-">> \o Zfill(date.day, 2)

\* ------------------------------------------------------------ exceptions
AuthenticationErrorDefault == <<"Authentication failed. Check your cookies and chat ID.">>
RateLimitErrorDefault == <<"API rate limit exceeded. Please try again later.">>

Raise(kind, message) == [kind |-> kind, message |-> message]
Return(value) == [kind |-> "return", value |-> value]

\* ModelType
LARGE_2 == "mistral-large-2407"
CODESTRAL == "codestral"
NEMO == "mistral-nemo"
PIXTRAL == "pixtral-12b-2409"
WEB_SEARCH == "pandragon"
ModelType == {LARGE_2, CODESTRAL, NEMO, PIXTRAL, WEB_SEARCH}

\* The requests exceptions the transport raises, each with the classes of
\* the except clauses it is an instance of.
Bases(e) ==
    CASE e = "ConnectTimeout"       -> {"Timeout", "ConnectionError", "RequestException"}
      [] e = "ReadTimeout"          -> {"Timeout", "RequestException"}
      [] e = "ConnectionError"      -> {"ConnectionError", "RequestException"}
      [] e = "ChunkedEncodingError" -> {"RequestException"}
      [] e = "TooManyRedirects"     -> {"RequestException"}

PostExceptions == {"ConnectTimeout", "ReadTimeout", "ConnectionError", "TooManyRedirects"}
IterExceptions == {"ConnectionError", "ChunkedEncodingError"}

\* ----------------------------------------------------------------- inputs
CookieInputs ==
    { <<>>, <<" ", "\t">>, <<" ", "k", "=", "1">> }
ChatIdInputs ==
    { <<>>, <<" ">>, <<"c", "7">> }

QueryInputs ==
    { <<>>,
      <<" ", "\n", "\t">>,
      <<" ", "q", " ">>,
      Rep("a", MaxQueryLen),
      Rep("a", MaxQueryLen + 1),
      <<" ">> \o Rep("b", MaxQueryLen) }

StatusCodes == {200, 201, 401, 404, 429, 500, 503}

Calendar ==
    << [year |-> 2024, month |-> 12, day |-> 31],
       [year |-> 2025, month |-> 1,  day |-> 1] >>

\* lines the transport may deliver
LineFrag  == <<"0", ":", "\"", "a", "\n", "\"">>
LineSkip  == <<"1", ":", "0", ":", "\"", "b", "\"">>
LineShort == <<"0", ":", "c">>
Lines == {LineFrag, LineSkip, LineShort}

HelloStream ==
    << <<"x", ":", "i", "g", "n", "o", "r", "e", "d">>,
       <<"0", ":", "\"", "H", "e", "l", "\"">>,
       <<"0", ":", "\"", "l", "o", "\\", "n", "\"">>,
       <<"0", ":", "\"", "W", "o", "r", "\"">>,
       <<"0", ":", "\"", "l", "d", "\"">> >>

SeqsUpTo(S, n) == UNION { [1..k -> S] : k \in 0..n }

Bodies == SeqsUpTo(Lines, MaxLines) \cup {HelloStream}

\* the bodies of the responses with a status other than 200
ErrorBodies == { <<>>, <<LineFrag>> }

BodiesOf(status_code) == IF status_code = 200 THEN Bodies ELSE ErrorBodies

\* ------------------------------------------------------------------ state
VARIABLES
    ctor_args,          \* the arguments of the constructor call, None before it
    ctor_error,         \* the exception __post_init__ raised, None if none
    client,             \* the constructed MistralAIClient, None if there is none
    today,              \* the clock: index into Calendar
    uuid_count,         \* number of uuid.uuid4() invocations so far
    calls,              \* number of chat / web_search calls started
    sent,               \* the messageId of every payload built, in order
    pc,                 \* "new", "idle", "post", "iter"
    op,                 \* the running or last call: "chat", "web_search", "none"
    query,              \* its query argument
    model,              \* its model argument (chat only)
    call_day,           \* the clock when the call started
    payload,            \* its payload, None until built
    post_count,         \* number of requests.post invocations of the call
    response,           \* status_code and lines of the response, None before it
    idx,                \* number of response lines consumed
    complete_response,  \* the accumulator of the decoding loop
    stdout,             \* what the call printed
    exc,                \* the transport exception raised in the call, "None" if none
    outcome             \* what the call returned or raised, None while running

vars == << ctor_args, ctor_error, client, today, uuid_count, calls, sent, pc, op,
           query, model, call_day, payload, post_count, response, idx,
           complete_response, stdout, exc, outcome >>

env == << today >>
obj == << ctor_args, ctor_error, client >>
hist == << uuid_count, sent >>

Init ==
    /\ ctor_args = None
    /\ ctor_error = None
    /\ client = None
    /\ today = 1
    /\ uuid_count = 0
    /\ calls = 0
    /\ sent = <<>>
    /\ pc = "new"
    /\ op = "none"
    /\ query = <<>>
    /\ model = LARGE_2
    /\ call_day = 1
    /\ payload = None
    /\ post_count = 0
    /\ response = None
    /\ idx = 0
    /\ complete_response = <<>>
    /\ stdout = <<>>
    /\ exc = "None"
    /\ outcome = None

\* ------------------------------------------------------------ the client
\* __post_init__ with the two checks in the other order
PostInitChatIdFirst(cookies, chat_id, print_responses) ==
    IF chat_id = <<>> \/ Len(Strip(chat_id)) = 0
    THEN Raise("InputValidationError", <<"Chat ID cannot be empty">>)
    ELSE IF cookies = <<>> \/ Len(Strip(cookies)) = 0
    THEN Raise("InputValidationError", <<"Cookies cannot be empty">>)
    ELSE [ cookies |-> cookies,
           chat_id |-> chat_id,
           print_responses |-> print_responses,
           headers |-> [Cookie |-> cookies] ]

\* MistralAIClient.__post_init__: the exception it raises, or the object
PostInit(cookies, chat_id, print_responses) ==
    IF cookies = <<>> \/ Len(Strip(cookies)) = 0
    THEN Raise("InputValidationError", <<"Cookies cannot be empty">>)
    ELSE IF chat_id = <<>> \/ Len(Strip(chat_id)) = 0
    THEN Raise("InputValidationError", <<"Chat ID cannot be empty">>)
    ELSE [ cookies |-> cookies,
           chat_id |-> chat_id,
           print_responses |-> print_responses,
           headers |-> [Cookie |-> cookies] ]

IsRaise(r) == "kind" \in DOMAIN r /\ r.kind # "return"

\* _validate_query with the length check off by one
ValidateQueryOffByOne(q) ==
    IF q = <<>> \/ Len(Strip(q)) = 0
    THEN Raise("InputValidationError", <<"Query cannot be empty">>)
    ELSE IF Len(q) >= MaxQueryLen
    THEN Raise("InputValidationError",
               <<"Query is too long. Maximum 1000 characters allowed.">>)
    ELSE None

\* MistralAIClient._validate_query: the exception it raises, or None
ValidateQuery(q) ==
    IF q = <<>> \/ Len(Strip(q)) = 0
    THEN Raise("InputValidationError", <<"Query cannot be empty">>)
    ELSE IF Len(q) > MaxQueryLen
    THEN Raise("InputValidationError",
               <<"Query is too long. Maximum 1000 characters allowed.">>)
    ELSE None

\* uuid.uuid4(): the value of the invocation that follows n earlier ones
Uuid4(n) == <<"uuid4", n + 1>>

\* an identifier generated once and kept
MessageIdKept(n) == Uuid4(0)

\* str(uuid.uuid4()) of a call made after n earlier invocations
MessageId(n) == Uuid4(n)

\* the chat payload carrying the search flag of the web-search model
ChatPayloadWithFeatures(self, messageId, m, user_query) ==
    IF m = WEB_SEARCH
    THEN [ chatId |-> self.chat_id,
           messageId |-> messageId,
           model |-> m,
           messageInput |-> user_query,
           mode |-> "append",
           features |-> <<"beta-websearch">> ]
    ELSE [ chatId |-> self.chat_id,
           messageId |-> messageId,
           model |-> m,
           messageInput |-> user_query,
           mode |-> "append" ]

\* the payload of chat
ChatPayload(self, messageId, m, user_query) ==
    [ chatId |-> self.chat_id,
      messageId |-> messageId,
      model |-> m,
      messageInput |-> user_query,
      mode |-> "append" ]

\* the payload of web_search
WebSearchPayload(self, messageId, now, q) ==
    [ chatId |-> self.chat_id,
      mode |-> "append",
      model |-> WEB_SEARCH,
      messageInput |-> q,
      messageId |-> messageId,
      features |-> <<"beta-websearch">>,
      clientPromptData |-> [currentDate |-> Strftime(now)] ]

\* the status chain without the check for 500
StatusErrorWithout500(status_code) ==
    IF status_code = 401 THEN Raise("AuthenticationError", AuthenticationErrorDefault)
    ELSE IF status_code = 404 THEN Raise("AuthenticationError", AuthenticationErrorDefault)
    ELSE IF status_code = 429 THEN Raise("RateLimitError", RateLimitErrorDefault)
    ELSE IF status_code # 200
    THEN Raise("NetworkConnectionError", <<"Unexpected error: ">> \o IntStr(status_code))
    ELSE None

\* the if / elif chain on response.status_code: the exception raised, or None
StatusError(status_code) ==
    IF status_code = 401 THEN Raise("AuthenticationError", AuthenticationErrorDefault)
    ELSE IF status_code = 404 THEN Raise("AuthenticationError", AuthenticationErrorDefault)
    ELSE IF status_code = 500 THEN Raise("AuthenticationError", AuthenticationErrorDefault)
    ELSE IF status_code = 429 THEN Raise("RateLimitError", RateLimitErrorDefault)
    ELSE IF status_code # 200
    THEN Raise("NetworkConnectionError", <<"Unexpected error: ">> \o IntStr(status_code))
    ELSE None

\* the except clauses with ConnectionError tried before Timeout
ExceptClausesConnectionFirst(e) ==
    IF "ConnectionError" \in Bases(e)
    THEN Raise("NetworkConnectionError", <<"Could not connect to Mistral AI">>)
    ELSE IF "Timeout" \in Bases(e)
    THEN Raise("NetworkConnectionError", <<"Request timed out">>)
    ELSE IF "RequestException" \in Bases(e)
    THEN Raise("NetworkConnectionError", <<"Network error: ", e>>)
    ELSE Raise(e, <<e>>)

\* the except clauses, tried in order, for a transport exception e
ExceptClauses(e) ==
    IF "Timeout" \in Bases(e)
    THEN Raise("NetworkConnectionError", <<"Request timed out">>)
    ELSE IF "ConnectionError" \in Bases(e)
    THEN Raise("NetworkConnectionError", <<"Could not connect to Mistral AI">>)
    ELSE IF "RequestException" \in Bases(e)
    THEN Raise("NetworkConnectionError", <<"Network error: ", e>>)
    ELSE Raise(e, <<e>>)

\* content = line[2:-1]
ContentAfterMarker(line) == Slice(line, 2, -1)

\* content = line[3:-1]
Content(line) == Slice(line, 3, -1)

\* the loop body without the test of the marker
LoopBodyAnyLine(acc, line) == acc \o Content(line)

\* one pass of the body of the for loop over a line: the new accumulator
LoopBody(acc, line) ==
    IF StartsWith(line, <<"0", ":">>) THEN acc \o Content(line) ELSE acc

\* what one pass of the loop prints
LoopEcho(self, out, line) ==
    IF StartsWith(line, <<"0", ":">>) /\ self.print_responses
    THEN out \o Content(line) ELSE out

\* return complete_response.replace('\n', '')
Result(acc) == Return(Replace(acc, "\n"))

\* ---------------------------------------------------------------- actions
\* MistralAIClient(cookies, chat_id, print_responses)
Construct(cookies, chat_id, print_responses) ==
    /\ pc = "new"
    /\ LET r == PostInit(cookies, chat_id, print_responses)
       IN  /\ ctor_args' = [ cookies |-> cookies, chat_id |-> chat_id,
                             print_responses |-> print_responses ]
           /\ IF IsRaise(r)
              THEN /\ ctor_error' = r
                   /\ client' = None
                   /\ pc' = "new_failed"
              ELSE /\ ctor_error' = None
                   /\ client' = r
                   /\ pc' = "idle"
    /\ UNCHANGED << env, hist, calls, op, query, model, call_day, payload, post_count,
                    response, idx, complete_response, stdout, exc, outcome >>

\* the start of a call: validation, then the payload
Begin(o, q, m, pl) ==
    /\ pc = "idle"
    /\ calls < MaxCalls
    /\ calls' = calls + 1
    /\ op' = o
    /\ query' = q
    /\ model' = m
    /\ call_day' = today
    /\ post_count' = 0
    /\ response' = None
    /\ idx' = 0
    /\ complete_response' = <<>>
    /\ stdout' = <<>>
    /\ exc' = "None"
    /\ LET v == ValidateQuery(q)
       IN  IF v # None
           THEN /\ outcome' = v
                /\ payload' = None
                /\ pc' = "idle"
                /\ UNCHANGED hist
           ELSE /\ outcome' = None
                /\ payload' = pl
                /\ uuid_count' = uuid_count + 1
                /\ sent' = Append(sent, pl.messageId)
                /\ pc' = "post"
    /\ UNCHANGED << env, obj >>

\* chat(user_query, model) up to requests.post
Chat(user_query, m) ==
    Begin("chat", user_query, m,
          ChatPayload(client, MessageId(uuid_count), m, user_query))

\* web_search(query) up to requests.post
WebSearch(q) ==
    Begin("web_search", q, LARGE_2,
          WebSearchPayload(client, MessageId(uuid_count), Calendar[today], q))

\* requests.post raises e and the call posts once more
PostRaisesRetry(e) ==
    /\ pc = "post"
    /\ post_count' = post_count + 1
    /\ exc' = e
    /\ IF post_count = 0
       THEN outcome' = None /\ pc' = "post"
       ELSE outcome' = ExceptClauses(e) /\ pc' = "idle"
    /\ UNCHANGED << env, obj, hist, calls, op, query, model, call_day, payload,
                    response, idx, complete_response, stdout >>

\* requests.post raises e
PostRaises(e) ==
    /\ pc = "post"
    /\ post_count' = post_count + 1
    /\ exc' = e
    /\ outcome' = ExceptClauses(e)
    /\ pc' = "idle"
    /\ UNCHANGED << env, obj, hist, calls, op, query, model, call_day, payload,
                    response, idx, complete_response, stdout >>

\* requests.post returns a response; the status checks
PostResponds(status_code, lines) ==
    /\ pc = "post"
    /\ post_count' = post_count + 1
    /\ response' = [status_code |-> status_code, lines |-> lines]
    /\ LET err == StatusError(status_code)
       IN  IF err # None
           THEN outcome' = err /\ pc' = "idle"
           ELSE outcome' = None /\ pc' = "iter"
    /\ complete_response' = <<>>
    /\ UNCHANGED << env, obj, hist, calls, op, query, model, call_day, payload,
                    idx, stdout, exc >>

\* iter_lines yields the next line; one pass of the loop
IterLine ==
    /\ pc = "iter"
    /\ idx < Len(response.lines)
    /\ LET line == response.lines[idx + 1]
       IN  /\ complete_response' = LoopBody(complete_response, line)
           /\ stdout' = LoopEcho(client, stdout, line)
    /\ idx' = idx + 1
    /\ UNCHANGED << env, obj, hist, calls, op, query, model, call_day, payload,
                    post_count, response, exc, outcome, pc >>

\* iter_lines raises e and the handler drops the stored headers
IterRaisesDropsHeaders(e) ==
    /\ pc = "iter"
    /\ exc' = e
    /\ outcome' = ExceptClauses(e)
    /\ pc' = "idle"
    /\ client' = [client EXCEPT !.headers = [Cookie |-> <<>>]]
    /\ UNCHANGED << env, ctor_args, ctor_error, hist, calls, op, query, model, call_day,
                    payload, post_count, response, idx, complete_response, stdout >>

\* iter_lines raises e instead of yielding or ending
IterRaises(e) ==
    /\ pc = "iter"
    /\ exc' = e
    /\ outcome' = ExceptClauses(e)
    /\ pc' = "idle"
    /\ UNCHANGED << env, obj, hist, calls, op, query, model, call_day, payload,
                    post_count, response, idx, complete_response, stdout >>

\* iter_lines is exhausted; the return statement
ReturnResponse ==
    /\ pc = "iter"
    /\ idx = Len(response.lines)
    /\ outcome' = Result(complete_response)
    /\ pc' = "idle"
    /\ UNCHANGED << env, obj, hist, calls, op, query, model, call_day, payload,
                    post_count, response, idx, complete_response, stdout, exc >>

\* the clock reaches the next day
Tick ==
    /\ today < Len(Calendar)
    /\ today' = today + 1
    /\ UNCHANGED << obj, hist, calls, pc, op, query, model, call_day, payload,
                    post_count, response, idx, complete_response, stdout, exc, outcome >>

Next ==
    \/ \E c \in CookieInputs, i \in ChatIdInputs, p \in BOOLEAN : Construct(c, i, p)
    \/ \E q \in QueryInputs, m \in ModelType : Chat(q, m)
    \/ \E q \in QueryInputs : WebSearch(q)
    \/ \E e \in PostExceptions : PostRaises(e)
    \/ \E s \in StatusCodes : \E b \in BodiesOf(s) : PostResponds(s, b)
    \/ IterLine
    \/ \E e \in IterExceptions : IterRaises(e)
    \/ ReturnResponse
    \/ Tick

Spec == Init /\ [][Next]_vars

\* ------------------------------------------------------------ properties
HasNonSpace(s) == \E i \in 1..Len(s) : s[i] \notin Whitespace

AcceptableQuery(q) == HasNonSpace(q) /\ Len(q) <= 1000

Ended == op # "none" /\ outcome # None

Returned == Ended /\ outcome.kind = "return"

IsMarkerLine(l) == Len(l) >= 2 /\ l[1] = "0" /\ l[2] = ":"

WithoutNewlines(s) == SelectSeq(s, LAMBDA c : c # "\n")

Marked(ls) == SelectSeq(ls, IsMarkerLine)

RECURSIVE Joined(_)
Joined(ls) == IF ls = <<>> THEN <<>> ELSE Content(Head(ls)) \o Joined(Tail(ls))

\* the line without its first a and its last b characters
Drop(l, a, b) == [i \in 1..(IF Len(l) > a + b THEN Len(l) - a - b ELSE 0) |-> l[i + a]]

RECURSIVE JoinedDrop(_, _, _)
JoinedDrop(ls, a, b) ==
    IF ls = <<>> THEN <<>> ELSE Drop(Head(ls), a, b) \o JoinedDrop(Tail(ls), a, b)

DigitVal(c) == CHOOSE d \in 0..9 : Digits10[d + 1] = c

IsDigits(s) == \A i \in 1..Len(s) : \E d \in 0..9 : Digits10[d + 1] = s[i]

RECURSIVE ParseDec(_)
ParseDec(s) ==
    IF s = <<>> THEN 0
    ELSE ParseDec(SubSeq(s, 1, Len(s) - 1)) * 10 + DigitVal(s[Len(s)])

IsDateOf(s, d) ==
    /\ Len(s) = 10
    /\ s[5] = "-" /\ s[8] = "-"
    /\ IsDigits(SubSeq(s, 1, 4)) /\ IsDigits(SubSeq(s, 6, 7)) /\ IsDigits(SubSeq(s, 9, 10))
    /\ ParseDec(SubSeq(s, 1, 4)) = d.year
    /\ ParseDec(SubSeq(s, 6, 7)) = d.month
    /\ ParseDec(SubSeq(s, 9, 10)) = d.day

TimeoutKinds == {"ConnectTimeout", "ReadTimeout"}
ConnectionKinds == {"ConnectTimeout", "ConnectionError"}

\* C1: in chat and in web_search a query that has a non-whitespace character
\* and at most 1000 characters passes validation (the payload is built); any
\* other query ends the call with InputValidationError, and then requests.post
\* was invoked zero times.
C1_Validation ==
    op # "none" =>
        /\ AcceptableQuery(query) =>
               /\ payload # None
               /\ outcome # None => outcome.kind # "InputValidationError"
        /\ ~AcceptableQuery(query) =>
               /\ outcome # None
               /\ outcome.kind = "InputValidationError"
               /\ post_count = 0
               /\ payload = None
               /\ response = None

C1_Witness ==
    /\ op = "web_search"
    /\ Len(query) = MaxQueryLen + 1
    /\ HasNonSpace(query)
    /\ outcome # None
    /\ outcome.kind = "InputValidationError"
    /\ post_count = 0

\* C2: the status code alone decides the outcome before any line is read or
\* echoed: 401, 404 and 500 end the call with AuthenticationError, 429 with
\* RateLimitError, any other status but 200 with NetworkConnectionError whose
\* message carries the code; only 200 reaches the decoding loop.
C2_Status ==
    response # None =>
        LET sc == response.status_code
        IN  /\ sc \in {401, 404, 500} =>
                   outcome # None /\ outcome.kind = "AuthenticationError"
            /\ sc = 429 => outcome # None /\ outcome.kind = "RateLimitError"
            /\ sc \notin {200, 401, 404, 429, 500} =>
                   /\ outcome # None
                   /\ outcome.kind = "NetworkConnectionError"
                   /\ outcome.message[1] = "Unexpected error: "
                   /\ IsDigits(Tail(outcome.message))
                   /\ ParseDec(Tail(outcome.message)) = sc
            /\ sc # 200 =>
                   /\ idx = 0
                   /\ stdout = <<>>
                   /\ complete_response = <<>>
                   /\ exc = "None"
            /\ pc = "iter" => sc = 200

C2_Witness ==
    /\ op = "web_search"
    /\ response # None
    /\ response.status_code = 500
    /\ Len(response.lines) > 0
    /\ outcome # None
    /\ outcome.kind = "AuthenticationError"

\* C3: on a 200 response whose stream ends, the returned string is the
\* concatenation, in arrival order, of the fragments of exactly the lines
\* that start with "0:", with the newline characters removed; the other
\* lines contribute nothing, and the returned string has no newline.
C3_Decode ==
    /\ pc = "iter" =>
           complete_response = Joined(Marked(SubSeq(response.lines, 1, idx)))
    /\ Returned =>
           /\ response.status_code = 200
           /\ outcome.value = WithoutNewlines(Joined(Marked(response.lines)))
           /\ \A i \in 1..Len(outcome.value) : outcome.value[i] # "\n"
    /\ (Ended /\ response # None /\ response.status_code = 200 /\ exc = "None") => Returned

C3_Witness ==
    /\ Returned
    /\ response.lines = <<LineSkip, LineFrag>>
    /\ outcome.value = <<"a">>

\* C4 as stated: the fragment of a line starting with "0:" is the line
\* without its first 2 and its last character, and the stream x:ignored,
\* 0:"Hel", 0:"lo\n", 0:"Wor", 0:"ld" decodes to HelloWorld.
C4_Original ==
    Returned =>
        /\ outcome.value = WithoutNewlines(JoinedDrop(Marked(response.lines), 2, 1))
        /\ response.lines = HelloStream =>
               outcome.value = <<"H", "e", "l", "l", "o", "W", "o", "r", "l", "d">>

\* C4 amended: the fragment of a line starting with "0:" is the line without
\* its first 3 and its last character (empty for a line shorter than 5), only
\* newline characters are removed from the concatenation, and the stream
\* x:ignored, 0:"Hel", 0:"lo\n", 0:"Wor", 0:"ld" decodes to Hello\nWorld with
\* the backslash and the n kept.
C4_Amended ==
    Returned =>
        /\ outcome.value = WithoutNewlines(JoinedDrop(Marked(response.lines), 3, 1))
        /\ response.lines = HelloStream =>
               outcome.value =
                   <<"H", "e", "l", "l", "o", "\\", "n", "W", "o", "r", "l", "d">>

C4_Witness ==
    /\ Returned
    /\ response.lines = HelloStream
    /\ Len(outcome.value) = 12

\* C5: a transport exception, raised by requests.post or while the lines are
\* iterated, ends the call with NetworkConnectionError and never with a
\* returned string; a timeout (a connect timeout included), a connection
\* failure and any other transport exception give three different messages.
C5_Transport ==
    exc # "None" =>
        /\ outcome # None
        /\ outcome.kind = "NetworkConnectionError"
        /\ exc \in TimeoutKinds => outcome.message = <<"Request timed out">>
        /\ exc \in ConnectionKinds \ TimeoutKinds =>
               outcome.message = <<"Could not connect to Mistral AI">>
        /\ exc \notin TimeoutKinds \cup ConnectionKinds =>
               /\ outcome.message = <<"Network error: ", exc>>
               /\ outcome.message # <<"Request timed out">>
               /\ outcome.message # <<"Could not connect to Mistral AI">>

C5_Witness ==
    /\ op = "chat"
    /\ exc = "ConnectionError"
    /\ idx > 0
    /\ complete_response # <<>>
    /\ outcome # None
    /\ outcome.kind = "NetworkConnectionError"

\* C6: constructing with a cookie string or a chat id that is empty or all
\* whitespace raises InputValidationError and leaves no client and no network
\* activity; the cookies are checked first; a constructed client has both
\* fields non-empty after trimming.
C6_Construct ==
    /\ ctor_args = None => client = None /\ ctor_error = None
    /\ ctor_args # None =>
           /\ ~HasNonSpace(ctor_args.cookies) =>
                  /\ client = None
                  /\ ctor_error = Raise("InputValidationError", <<"Cookies cannot be empty">>)
           /\ (HasNonSpace(ctor_args.cookies) /\ ~HasNonSpace(ctor_args.chat_id)) =>
                  /\ client = None
                  /\ ctor_error = Raise("InputValidationError", <<"Chat ID cannot be empty">>)
           /\ (HasNonSpace(ctor_args.cookies) /\ HasNonSpace(ctor_args.chat_id)) =>
                  client # None /\ ctor_error = None
    /\ client # None => HasNonSpace(client.cookies) /\ HasNonSpace(client.chat_id)
    /\ client = None => calls = 0 /\ post_count = 0 /\ sent = <<>> /\ response = None

C6_Witness ==
    /\ ctor_args # None
    /\ ~HasNonSpace(ctor_args.cookies)
    /\ ~HasNonSpace(ctor_args.chat_id)
    /\ ctor_args.chat_id # <<>>
    /\ ctor_error # None
    /\ ctor_error.message = <<"Cookies cannot be empty">>

\* C7: a web_search payload has the search feature flag, the date of the call
\* as YYYY-MM-DD and the model pandragon; a chat payload has neither the
\* feature flag nor the date, whatever model was selected.
C7_Payload ==
    payload # None =>
        /\ op = "web_search" =>
               /\ "features" \in DOMAIN payload
               /\ payload.features = <<"beta-websearch">>
               /\ "clientPromptData" \in DOMAIN payload
               /\ IsDateOf(payload.clientPromptData.currentDate, Calendar[call_day])
               /\ payload.model = "pandragon"
        /\ op = "chat" =>
               /\ "features" \notin DOMAIN payload
               /\ "clientPromptData" \notin DOMAIN payload
               /\ payload.model = model

C7_Witness ==
    /\ op = "web_search"
    /\ payload # None
    /\ call_day = 2
    /\ payload.clientPromptData.currentDate =
           <<"2", "0", "2", "5", "-", "0", "1", "-", "0", "1">>

\* C8: every call that builds a payload takes a new identifier from uuid4,
\* and no two payloads built on one client carry the same messageId.
C8_MessageIds ==
    /\ \A i, j \in 1..Len(sent) : i # j => sent[i] # sent[j]
    /\ Len(sent) = uuid_count
    /\ payload # None => Len(sent) > 0 /\ payload.messageId = sent[Len(sent)]

C8_Witness ==
    /\ Len(sent) = 2
    /\ op = "web_search"
    /\ outcome # None
    /\ outcome.kind = "NetworkConnectionError"

\* C9: a call whose query passes validation invokes requests.post exactly
\* once; after a non-200 status or a transport exception the call ends with
\* an error, with no second request, the model unchanged and no value returned.
C9_OnePost ==
    /\ post_count <= 1
    /\ pc = "iter" => post_count = 1
    /\ (Ended /\ AcceptableQuery(query)) => post_count = 1
    /\ (Ended /\ (exc # "None" \/ (response # None /\ response.status_code # 200))) =>
           /\ outcome.kind # "return"
           /\ post_count = 1
           /\ payload.model = IF op = "chat" THEN model ELSE "pandragon"

C9_Witness ==
    /\ Ended
    /\ exc = "ChunkedEncodingError"
    /\ idx > 0
    /\ post_count = 1
    /\ outcome.kind = "NetworkConnectionError"

\* C10: no call changes cookies, chat_id, print_responses or the stored
\* headers: after any calls the client is the one a construction with the
\* same arguments gives, both strings non-empty after trimming and the
\* Cookie header equal to the cookie string.
C10_Frame ==
    client # None =>
        /\ client = [ cookies |-> ctor_args.cookies,
                      chat_id |-> ctor_args.chat_id,
                      print_responses |-> ctor_args.print_responses,
                      headers |-> [Cookie |-> ctor_args.cookies] ]
        /\ HasNonSpace(client.cookies)
        /\ HasNonSpace(client.chat_id)
        /\ client.headers.Cookie = client.cookies

C10_Witness ==
    /\ client # None
    /\ calls = 2
    /\ Len(sent) = 2
    /\ Ended
    /\ exc = "ConnectionError"
    /\ idx > 0

====
